---- MODULE Spec2Model ----
(***************************************************************************)
(* Tree consistency analysis and conflict-resolution engine:               *)
(*   src/src/utils/tree_traversal.py   (SafeTreeTraverser, cycle detector,  *)
(*                                      path enumerator, structural         *)
(*                                      validator)                          *)
(*   src/src/agents/conflict_resolver.py (ConflictResolver)                 *)
(*   src/src/agents/validation_agent.py  (the four conflict detectors)      *)
(***************************************************************************)
EXTENDS Integers, Sequences, FiniteSets, TLC

\* State of one SafeTreeTraverser instance and its running call
VARIABLES
    tpc,             \* "idle" | "running" | "unwinding" | "returned" | "raised"
    config,          \* TraversalConfig: max_depth, detect_cycles, raise_on_cycle
    all_nodes,       \* the tree handed to traverse_tree
    tstack,          \* activation records of _traverse_recursive
    current_path,    \* self._current_path
    visited_nodes,   \* self._visited_nodes
    cycle_detected,  \* self._cycle_detected
    events,          \* log of the current call: visits, depth cuts, cycle stops
    prior            \* has_cycle() and get_visited_nodes() as they stood when
                     \* the current call was made

tvars == <<tpc, config, all_nodes, tstack, current_path, visited_nodes,
           cycle_detected, events, prior>>

\* State of one detect_circular_references call
VARIABLES
    cpc,     \* "input" | "done"
    ctree,   \* the tree argument
    cresult  \* [raised, cycles]: the returned list, or the error raised

cvars == <<cpc, ctree, cresult>>

\* State of one find_all_paths call
VARIABLES
    ppc,           \* "input" | "running" | "done"
    ptree,         \* the tree argument
    start_node_id,
    end_node_id,
    pstack,        \* activation records of the nested dfs
    all_paths      \* the list being returned

pvars == <<ppc, ptree, start_node_id, end_node_id, pstack, all_paths>>

\* State of one ConflictResolver.resolve_conflicts pass.  Node records are
\* Python objects shared by reference between the caller's tree and
\* resolved_tree (tree.copy() is shallow), so there is one store of node
\* objects and, for each of the two trees, the list of ids its 'nodes'
\* container holds.
VARIABLES
    rpc,             \* "input" | "running" | "done"
    nshape,          \* container shape of tree['nodes']: "dict" | "list"
    node_objs,       \* id -> node object (shared by both trees)
    tree_nodes,      \* ids held by the caller's tree['nodes'], in order
    resolved_nodes,  \* ids held by resolved_tree['nodes'], in order
    tree0,           \* the caller's tree as it was when the pass started
    conflicts,       \* the conflicts handled so far, in handling order
    resolutions,     \* conflicts of the 'resolutions' list, in order
    unresolved,      \* conflicts of the 'unresolved' list, in order
    same_container,  \* resolved_tree['nodes'] is tree['nodes'] (one object)
    last             \* the latest repair attempt: conflict, tree before, outcome

rvars == <<rpc, nshape, node_objs, tree_nodes, resolved_nodes, tree0, conflicts,
           resolutions, unresolved, same_container, last>>

\* State of a ValidationAgent whose validate is called on one tree
VARIABLES
    vruns,    \* number of validate calls that have returned
    vtree,    \* the tree argument
    vresult,  \* the lists of the latest call: one per detector, and 'conflicts'
    vfirst    \* validation_results['conflicts'] of the first call

vvars == <<vruns, vtree, vresult, vfirst>>

\* State of one validate_tree_structure call
VARIABLES
    spc,      \* "input" | "done"
    snodes,   \* the nodes argument
    sresult   \* the error raised, or (is_valid, issues); and the nodes visited

svars == <<spc, snodes, sresult>>

vars == <<tvars, cvars, pvars, rvars, vvars, svars>>

notTrav == <<cvars, pvars, rvars, vvars, svars>>
notCyc == <<tvars, pvars, rvars, vvars, svars>>
notPath == <<tvars, cvars, rvars, vvars, svars>>
notRes == <<tvars, cvars, pvars, vvars, svars>>
notVal == <<tvars, cvars, pvars, rvars, svars>>
notStruct == <<tvars, cvars, pvars, rvars, vvars>>

(***************************************************************************)
(* Graph model.  A tree is a record                                        *)
(*   nshape : "dict" (nodes is a mapping id -> node) or "list" (a list of   *)
(*            node records carrying an 'id' field)                          *)
(*   order  : the node ids in container (insertion) order                   *)
(*   nodes  : id -> node record                                             *)
(* and a node is a record                                                  *)
(*   cshape : wire shape of its connections:                                *)
(*            "map"  label -> target id mapping                             *)
(*            "rec"  list of {condition, target_node_id} records            *)
(*            "to"   list of {to} records (the shape of the resolver tests) *)
(*            "none" the node has no 'connections' key                      *)
(*   conns  : sequence of [label, target]                                   *)
(*   cond   : its 'condition' text                                          *)
(*   text   : its 'question' text                                           *)
(***************************************************************************)
N1 == "n1"
N2 == "n2"
N3 == "n3"
Ghost == "nx"

Range(s) == {s[k] : k \in 1..Len(s)}

IndexOf(s, x) == CHOOSE k \in 1..Len(s) : s[k] = x /\ \A j \in 1..(k - 1) : s[j] # x

SubSeqFrom(s, k) == [j \in 1..(Len(s) - k + 1) |-> s[j + k - 1]]

\* The elements of s that are members of S, in order.
KeepIn(s, S) ==
    LET F[k \in 0..Len(s)] ==
            IF k = 0 THEN << >>
            ELSE IF s[k] \in S THEN Append(F[k - 1], s[k]) ELSE F[k - 1]
    IN  F[Len(s)]

NodeIds(tree) == Range(tree.order)

\* connections = node.get('connections', {}) followed by the isinstance
\* dispatch of the traversal helpers: the sequence of target ids the helper
\* sees for node id.  The "to" shape is a list whose records carry no
\* 'target_node_id', so conn.get('target_node_id') is None for each of them.
ConnTargets(tree, id) ==
    LET node == tree.nodes[id] IN
    IF node.cshape \in {"map", "rec"}
    THEN [k \in 1..Len(node.conns) |-> node.conns[k].target]
    ELSE << >>

\* Connection labels ("yes", "no", ...), by position in a freshly built node.
LabelNames == <<"yes", "no", "l3", "l4", "l5", "l6", "l7", "l8">>

\* A node as the tree-structuring stage hands it over: connections in wire
\* shape cs to the given targets.  An empty list is the same value in the
\* shapes "rec" and "to".
\* A Python string that may hold a ':' separator: "head:tail" when colon,
\* else the plain text head.
Str(text) == [colon |-> FALSE, head |-> text, tail |-> ""]
Colon(head, tail) == [colon |-> TRUE, head |-> head, tail |-> tail]
NoValue == "<None>"

MkNode(cs, targets) ==
    [cshape |-> IF cs = "to" /\ targets = << >> THEN "rec" ELSE cs,
     conns |-> [k \in 1..Len(targets) |-> [label |-> LabelNames[k], target |-> targets[k]]],
     cond |-> Str("p"),
     text |-> Str("p")]

\* The target ids written in the connections of node id, whatever the shape.
RawTargets(tree, id) ==
    [k \in 1..Len(tree.nodes[id].conns) |-> tree.nodes[id].conns[k].target]

(***************************************************************************)
(* SafeTreeTraverser                                                       *)
(***************************************************************************)
\* Largest max_depth the traversal model is started with.
MaxDepthBound == 2
\* Largest total number of connections of a traversed graph.
TravEdges == 3

TravIds == {N1, N2}
TravTargets == {N1, N2, Ghost}

\* The model's cap on the number of activation records.  The depth check
\* keeps the stack within max_depth + 1 records, so the cap never binds.
StackCap == MaxDepthBound + 3

\* get_children of validate_tree_structure: the nodes of the targets that
\* are keys of all_nodes, in connection order.
get_children(tree, id) ==
    KeepIn(ConnTargets(tree, id), NodeIds(tree))

\* if depth > self.config.max_depth
DepthCheckDetectOnly(depth, cfg) == cfg.detect_cycles /\ depth > cfg.max_depth
DepthCheckOffByOne(depth, cfg) == depth > cfg.max_depth + 1
DepthExceeded(depth, cfg) == depth > cfg.max_depth

\* if self.config.detect_cycles: if node_id in self._current_path
OnVisitedNodes(id, path, cfg) == cfg.detect_cycles /\ id \in visited_nodes
OnCurrentPath(id, path, cfg) == cfg.detect_cycles /\ id \in Range(path)

\* One invocation of _traverse_recursive(node id, depth) made with the
\* activation records stk below it and the instance state (path, vis, cyc):
\* the two early returns, the raise, or the push of a new record after
\* process_node and get_children.
Call(id, depth, stk, path, vis, cyc, ev) ==
    IF DepthExceeded(depth, config)
    THEN /\ events' = Append(ev, [kind |-> "cut", node |-> id, depth |-> depth])
         /\ tstack' = stk
         /\ tpc' = IF stk = << >> THEN "returned" ELSE "running"
         /\ current_path' = path
         /\ visited_nodes' = vis
         /\ cycle_detected' = cyc
    ELSE IF OnCurrentPath(id, path, config)
    THEN /\ cycle_detected' = TRUE
         /\ events' = Append(ev, [kind |-> "cycle", node |-> id, depth |-> depth])
         /\ tstack' = stk
         /\ tpc' = IF config.raise_on_cycle
                   THEN (IF stk = << >> THEN "raised" ELSE "unwinding")
                   ELSE (IF stk = << >> THEN "returned" ELSE "running")
         /\ current_path' = path
         /\ visited_nodes' = vis
    ELSE /\ Len(stk) < StackCap
         /\ current_path' = Append(path, id)
         /\ visited_nodes' = vis \cup {id}
         /\ events' = Append(ev, [kind |-> "visit", node |-> id, depth |-> depth])
         /\ tstack' = Append(stk, [id |-> id, depth |-> depth,
                                   children |-> get_children(all_nodes, id), i |-> 1])
         /\ tpc' = "running"
         /\ cycle_detected' = cyc

\* finally: if self._current_path and self._current_path[-1] == node_id: pop()
PopPathSkipped(path, id) == path
PopPath(path, id) ==
    IF path # << >> /\ path[Len(path)] = id THEN SubSeq(path, 1, Len(path) - 1) ELSE path

Top == tstack[Len(tstack)]
Below == SubSeq(tstack, 1, Len(tstack) - 1)

\* self._cycle_detected = False
CycleFlagKept == cycle_detected
CycleFlagCleared == FALSE

\* traverse_tree: clear the instance state, then _traverse_recursive(node, 0)
TraverseTree ==
    /\ tpc \in {"idle", "returned", "raised"}
    /\ \E node \in NodeIds(all_nodes) :
         Call(node, 0, << >>, << >>, {}, CycleFlagCleared, << >>)
    /\ prior' = [cycle |-> cycle_detected, visited |-> visited_nodes]
    /\ UNCHANGED <<config, all_nodes>>
    /\ UNCHANGED notTrav

\* for child_info in children: self._traverse_recursive(child, ..., depth + 1)
Descend ==
    /\ tpc = "running"
    /\ Top.i <= Len(Top.children)
    /\ Call(Top.children[Top.i], Top.depth + 1,
            Append(Below, [Top EXCEPT !.i = @ + 1]),
            current_path, visited_nodes, cycle_detected, events)
    /\ UNCHANGED <<config, all_nodes, prior>>
    /\ UNCHANGED notTrav

\* return result, through the finally clause
Return ==
    /\ tpc = "running"
    /\ Top.i > Len(Top.children)
    /\ current_path' = PopPath(current_path, Top.id)
    /\ tstack' = Below
    /\ tpc' = IF Below = << >> THEN "returned" ELSE "running"
    /\ UNCHANGED <<config, all_nodes, visited_nodes, cycle_detected, events, prior>>
    /\ UNCHANGED notTrav

\* the RecursionError of raise_on_cycle leaving one activation record
\* through its finally clause
Unwind ==
    /\ tpc = "unwinding"
    /\ current_path' = PopPath(current_path, Top.id)
    /\ tstack' = Below
    /\ tpc' = IF Below = << >> THEN "raised" ELSE "unwinding"
    /\ UNCHANGED <<config, all_nodes, visited_nodes, cycle_detected, events, prior>>
    /\ UNCHANGED notTrav

TravStep == Descend \/ Return \/ Unwind

\* The graphs the traversal is started on: every assignment of at most
\* TravEdges connections, self-loops and dangling targets included.
TravInit ==
    /\ tpc = "idle"
    /\ \E md \in 0..MaxDepthBound, dc \in BOOLEAN, rc \in BOOLEAN :
         config = [max_depth |-> md, detect_cycles |-> dc, raise_on_cycle |-> rc]
    /\ \E l1 \in 0..TravEdges, l2 \in 0..TravEdges, cs \in {"map", "rec"} :
         /\ l1 + l2 <= TravEdges
         /\ \E c1 \in [1..l1 -> TravTargets], c2 \in [1..l2 -> TravTargets] :
              all_nodes = [nshape |-> "dict", order |-> <<N1, N2>>,
                           nodes |-> (N1 :> MkNode(cs, c1) @@ N2 :> MkNode(cs, c2))]
    /\ tstack = << >>
    /\ current_path = << >>
    /\ visited_nodes = {}
    /\ cycle_detected = FALSE
    /\ events = << >>
    /\ prior = [cycle |-> FALSE, visited |-> {}]

\* No traverser in use.
TravOff ==
    /\ tpc = "off"
    /\ config = [max_depth |-> 0, detect_cycles |-> FALSE, raise_on_cycle |-> FALSE]
    /\ all_nodes = << >>
    /\ tstack = << >>
    /\ current_path = << >>
    /\ visited_nodes = {}
    /\ cycle_detected = FALSE
    /\ events = << >>
    /\ prior = [cycle |-> FALSE, visited |-> {}]

TravNext == TraverseTree \/ Descend \/ Return \/ Unwind

(***************************************************************************)
(* Inputs of the graph algorithms: every tree over the ids n1, n2, n3 with  *)
(* at most maxEdges connections in total (targets may be any id or the id   *)
(* nx, which no tree contains), in every container and connection shape.    *)
(***************************************************************************)
Ids3 == {N1, N2, N3}
Targets3 == {N1, N2, N3, Ghost}

TreeChoice(tree, maxEdges) ==
    \E l1 \in 0..maxEdges, l2 \in 0..maxEdges, l3 \in 0..maxEdges :
        /\ l1 + l2 + l3 <= maxEdges
        /\ \E c1 \in [1..l1 -> Targets3], c2 \in [1..l2 -> Targets3],
              c3 \in [1..l3 -> Targets3],
              ns \in {"dict", "list"}, cs \in {"map", "rec", "to"} :
                tree = [nshape |-> ns, order |-> <<N1, N2, N3>>,
                        nodes |-> (N1 :> MkNode(cs, c1) @@ N2 :> MkNode(cs, c2)
                                   @@ N3 :> MkNode(cs, c3))]

(***************************************************************************)
(* detect_circular_references                                              *)
(***************************************************************************)
\* Largest total number of connections of a tree given to the detector.
CycEdges == 4

\* cycle = path[cycle_start:] + [node_id]
CycleFullPath(path, node_id) == Append(path, node_id)
CycleSuffix(path, node_id) == Append(SubSeqFrom(path, IndexOf(path, node_id)), node_id)

\* visiting.remove(node_id); visited.add(node_id)
MarkVisitedForgotten(st, node_id) == st
MarkVisited(st, node_id) == [st EXCEPT !.visited = @ \cup {node_id}]

\* The nested dfs(node_id, path, visiting); st holds the two collections
\* shared by all invocations, visited and circular_refs.  path and visiting
\* are handed down as copies, so each invocation extends its own.
RECURSIVE dfs(_, _, _, _, _)
dfs(tree, node_id, path, visiting, st) ==
    IF node_id \in visiting
    THEN [st EXCEPT !.circular_refs = Append(@, CycleSuffix(path, node_id))]
    ELSE IF node_id \in st.visited
    THEN st
    ELSE LET path2 == Append(path, node_id)
             visiting2 == visiting \cup {node_id}
             targets == ConnTargets(tree, node_id)
             Loop[k \in 0..Len(targets)] ==
                 IF k = 0 THEN st
                 ELSE IF targets[k] \in NodeIds(tree)
                      THEN dfs(tree, targets[k], path2, visiting2, Loop[k - 1])
                      ELSE Loop[k - 1]
         IN  MarkVisited(Loop[Len(targets)], node_id)

\* The search started from the first node only.
DetectFromFirstOnly(tree) ==
    IF tree.nshape = "list"
    THEN [raised |-> tree.order # << >>, cycles |-> << >>]
    ELSE [raised |-> FALSE,
          cycles |-> dfs(tree, tree.order[1], << >>, {},
                         [visited |-> {}, circular_refs |-> << >>]).circular_refs]

\* for node_id in nodes: if node_id not in visited: dfs(node_id, [], set())
\* With nodes a list the loop variable is a node record, and the membership
\* test on the set raises TypeError (a dict is unhashable).
detect_circular_references(tree) ==
    IF tree.nshape = "list"
    THEN [raised |-> tree.order # << >>, cycles |-> << >>]
    ELSE LET Roots[k \in 0..Len(tree.order)] ==
                 IF k = 0 THEN [visited |-> {}, circular_refs |-> << >>]
                 ELSE IF tree.order[k] \notin Roots[k - 1].visited
                      THEN dfs(tree, tree.order[k], << >>, {}, Roots[k - 1])
                      ELSE Roots[k - 1]
         IN  [raised |-> FALSE, cycles |-> Roots[Len(tree.order)].circular_refs]

DetectCycles ==
    /\ cpc = "input"
    /\ cresult' = detect_circular_references(ctree)
    /\ cpc' = "done"
    /\ UNCHANGED ctree
    /\ UNCHANGED notCyc

\* the caller drops the result and keeps the tree
CycReset ==
    /\ cpc = "done"
    /\ cpc' = "input"
    /\ cresult' = [raised |-> FALSE, cycles |-> << >>]
    /\ UNCHANGED ctree
    /\ UNCHANGED notCyc

CycInit ==
    /\ cpc = "input"
    /\ TreeChoice(ctree, CycEdges)
    /\ cresult = [raised |-> FALSE, cycles |-> << >>]

\* No detector call in progress.
CycOff ==
    /\ cpc = "off"
    /\ ctree = << >>
    /\ cresult = << >>

CycNext == DetectCycles \/ CycReset

(***************************************************************************)
(* find_all_paths                                                          *)
(***************************************************************************)
\* Largest total number of connections of a tree given to find_all_paths.
PathEdges == 4

\* The (start, end) arguments tried.  Every tree over n1..n3 is an input, so
\* starting at n1 stands for starting at any node; nx is an id absent from
\* the tree.
PathQueries == {<<N1, N1>>, <<N1, N2>>, <<N1, N3>>, <<N1, Ghost>>, <<Ghost, N1>>}

\* all_paths.append(path + [current_id])
FoundPathNoEnd(path, current_id) == path
FoundPath(path, current_id) == Append(path, current_id)

\* One invocation of the nested dfs(current_id, target_id, path, visited)
\* made with the activation records stk below it.
PathCall(current_id, target_id, path, visited, stk) ==
    IF current_id = target_id
    THEN /\ all_paths' = Append(all_paths, FoundPath(path, current_id))
         /\ pstack' = stk
         /\ ppc' = IF stk = << >> THEN "done" ELSE "running"
    ELSE IF current_id \in visited
    THEN /\ pstack' = stk
         /\ ppc' = IF stk = << >> THEN "done" ELSE "running"
         /\ UNCHANGED all_paths
    ELSE /\ pstack' = Append(stk, [current_id |-> current_id,
                                   path |-> Append(path, current_id),
                                   visited |-> visited \cup {current_id},
                                   i |-> 1])
         /\ ppc' = "running"
         /\ UNCHANGED all_paths

\* find_all_paths up to the first dfs call.  With nodes a list,
\* "start_node_id not in nodes" compares an id with node records and holds.
FindAllPaths ==
    /\ ppc = "input"
    /\ \E q \in PathQueries :
         /\ start_node_id' = q[1]
         /\ end_node_id' = q[2]
         /\ IF \/ ptree.nshape = "list"
               \/ q[1] \notin NodeIds(ptree)
               \/ q[2] \notin NodeIds(ptree)
            THEN /\ ppc' = "done"
                 /\ UNCHANGED <<pstack, all_paths>>
            ELSE PathCall(q[1], q[2], << >>, {}, << >>)
    /\ UNCHANGED ptree
    /\ UNCHANGED notPath

PTop == pstack[Len(pstack)]
PBelow == SubSeq(pstack, 1, Len(pstack) - 1)

\* one iteration of the loop over the connections of current_id
PathDescend ==
    /\ ppc = "running"
    /\ LET targets == ConnTargets(ptree, PTop.current_id)
           next_id == targets[PTop.i]
           stk == Append(PBelow, [PTop EXCEPT !.i = @ + 1])
       IN  /\ PTop.i <= Len(targets)
           /\ IF next_id \in NodeIds(ptree) /\ next_id \notin PTop.visited
              THEN PathCall(next_id, end_node_id, PTop.path, PTop.visited, stk)
              ELSE /\ pstack' = stk
                   /\ UNCHANGED <<ppc, all_paths>>
    /\ UNCHANGED <<ptree, start_node_id, end_node_id>>
    /\ UNCHANGED notPath

\* the loop is exhausted: dfs returns
PathReturn ==
    /\ ppc = "running"
    /\ PTop.i > Len(ConnTargets(ptree, PTop.current_id))
    /\ pstack' = PBelow
    /\ ppc' = IF PBelow = << >> THEN "done" ELSE "running"
    /\ UNCHANGED <<ptree, start_node_id, end_node_id, all_paths>>
    /\ UNCHANGED notPath

PathStep == PathDescend \/ PathReturn

PathInit ==
    /\ ppc = "input"
    /\ TreeChoice(ptree, PathEdges)
    /\ start_node_id = N1
    /\ end_node_id = N1
    /\ pstack = << >>
    /\ all_paths = << >>

\* No find_all_paths call in progress.
PathOff ==
    /\ ppc = "off"
    /\ ptree = << >>
    /\ start_node_id = N1
    /\ end_node_id = N1
    /\ pstack = << >>
    /\ all_paths = << >>

PathNext == FindAllPaths \/ PathDescend \/ PathReturn

(***************************************************************************)
(* ConflictResolver                                                        *)
(***************************************************************************)
\* Largest number of conflicts handed to one resolve_conflicts pass.
MaxConflicts == 2
\* Largest total number of connections of a tree given to the resolver.
ResEdges == 2

N4 == "n4"

\* The elements of s that are not members of S, in order.
KeepOut(s, S) ==
    LET F[k \in 0..Len(s)] ==
            IF k = 0 THEN << >>
            ELSE IF s[k] \notin S THEN Append(F[k - 1], s[k]) ELSE F[k - 1]
    IN  F[Len(s)]

TreeView(ns, keys, objs) ==
    [nshape |-> ns, order |-> keys, nodes |-> [id \in Range(keys) |-> objs[id]]]

\* the tree object the caller passed in, and results['tree']
CallerTree == TreeView(nshape, tree_nodes, node_objs)
ResolvedTree == TreeView(nshape, resolved_nodes, node_objs)

Conflict(type, nodes) == [type |-> type, nodes |-> nodes]

\* The conflicts a pass is given.
ConflictInputs ==
    {Conflict("circular_dependency", <<N3, N4, N3>>),
     Conflict("circular_dependency", <<N3, Ghost, N3>>),
     Conflict("circular_dependency", << >>),
     Conflict("redundant_paths", <<N1, N4>>),
     Conflict("redundant_paths", <<N1, N3>>),
     Conflict("redundant_paths", <<N3>>),
     Conflict("contradictory_paths", <<N1>>),
     Conflict("overlapping_conditions", <<N1, N3>>),
     Conflict("incomplete_coverage", <<N1>>)}

\* Replies of the text-generation collaborator to generate_structured_json:
\* an exception, or a ConflictResolution.
Mod(node_id, type, old_value, new_value) ==
    [node_id |-> node_id, modification_type |-> type,
     old_value |-> old_value, new_value |-> new_value]

Resolution(mods, new_nodes, removed) ==
    [ok |-> TRUE, modified_nodes |-> mods, new_nodes |-> new_nodes,
     removed_connections |-> removed]

LlmFailure == [ok |-> FALSE, modified_nodes |-> << >>, new_nodes |-> << >>,
               removed_connections |-> << >>]

\* DecisionNode.model_dump(): connections are NodeConnection records, and
\* there is no 'condition' key.
NewNode(id, targets) ==
    [id |-> id,
     node |-> [cshape |-> "rec",
               conns |-> [k \in 1..Len(targets) |->
                             [label |-> LabelNames[k], target |-> targets[k]]],
               cond |-> Str(NoValue),
               text |-> Str("q")]]

LlmReplies ==
    {LlmFailure,
     Resolution(<<Mod(N1, "update_condition", NoValue, Str("q")),
                  Mod(N1, "add_connection", NoValue, Colon("l3", N4))>>, << >>, << >>),
     Resolution(<<Mod(N3, "update_text", NoValue, Str("q")),
                  Mod(N1, "remove_connection", "yes", Str(""))>>,
                << >>, <<Colon(N3, "yes")>>),
     Resolution(<<Mod(N3, "update_condition", NoValue, Str("q"))>>,
                <<NewNode(N2, <<N1>>)>>, << >>),
     Resolution(<< >>, <<NewNode(N1, << >>)>>, << >>)}

\* node['connections'] = [conn for conn in connections
\*                        if conn.get('to') != x]   (drop = {x}), or
\*                        if conn.get('to') not in nodes_to_remove]
\* A mapping iterates over its keys, which are strings without .get: the
\* comprehension raises AttributeError unless the mapping is empty.  A
\* {condition, target_node_id} record has no 'to', so it is always kept.
FilterTo(node, drop) ==
    IF node.cshape = "map" /\ node.conns # << >>
    THEN [raised |-> TRUE, node |-> node]
    ELSE IF node.cshape = "to"
    THEN LET kept == SelectSeq(node.conns, LAMBDA c : c.target \notin drop)
         IN  [raised |-> FALSE,
              node |-> [node EXCEPT !.conns = kept,
                                    !.cshape = IF kept = << >> THEN "rec" ELSE "to"]]
    ELSE [raised |-> FALSE, node |-> [node EXCEPT !.cshape = "rec"]]

\* The connection the circular-dependency handler removes.
CycleEdgeToCut(cycle_nodes) ==
    LET n == Len(cycle_nodes) IN
    IF n >= 3 /\ cycle_nodes[1] = cycle_nodes[n]
    THEN [from |-> cycle_nodes[n - 1], to |-> cycle_nodes[n]]
    ELSE [from |-> cycle_nodes[n], to |-> cycle_nodes[1]]

\* except Exception: unresolved.append(conflict), the clause that closes the
\* try block of every handler's loop body.
ExceptSwallowed == "dropped"
ExceptFate == "unresolved"

\* One iteration of the loop of _resolve_circular_dependencies.  The result
\* names the list the conflict was appended to, or "dropped" when it was
\* appended to neither.
resolve_circular(conflict, objs, keys) ==
    IF Len(conflict.nodes) < 2
    THEN [objs |-> objs, keys |-> keys, fate |-> "unresolved", raised |-> FALSE]
    ELSE LET e == CycleEdgeToCut(conflict.nodes) IN
         IF e.from \notin Range(keys)
         THEN [objs |-> objs, keys |-> keys, fate |-> "dropped", raised |-> FALSE]
         ELSE LET f == FilterTo(objs[e.from], {e.to}) IN
              IF f.raised
              THEN [objs |-> objs, keys |-> keys, fate |-> ExceptFate, raised |-> TRUE]
              ELSE [objs |-> [objs EXCEPT ![e.from] = f.node], keys |-> keys,
                    fate |-> "resolved", raised |-> FALSE]

\* nodes_to_remove = set(redundant_nodes[len(redundant_nodes)//2:])
NodesToRemove(redundant_nodes) ==
    {redundant_nodes[k] : k \in ((Len(redundant_nodes) \div 2) + 1)..Len(redundant_nodes)}

\* One iteration of the loop of _resolve_redundant_paths.  nodes is the
\* container read at the start of the handler.  Iterating a mapping yields
\* its keys, so n.get raises before tree['nodes'] is assigned; with a list
\* the assignment happens first and the connection rewrite may then raise
\* part-way through the nodes.
resolve_redundant(conflict, objs, keys, nodes, ns) ==
    IF Len(conflict.nodes) <= 1
    THEN [objs |-> objs, keys |-> keys, rebound |-> FALSE, fate |-> "dropped",
          raised |-> FALSE]
    ELSE IF ns = "dict" /\ nodes # << >>
    THEN [objs |-> objs, keys |-> keys, rebound |-> FALSE, fate |-> ExceptFate,
          raised |-> TRUE]
    ELSE LET remove == NodesToRemove(conflict.nodes)
             kept == KeepOut(nodes, remove)
             Rewrite[k \in 0..Len(kept)] ==
                 IF k = 0 THEN [objs |-> objs, raised |-> FALSE]
                 ELSE LET prev == Rewrite[k - 1]
                          node == prev.objs[kept[k]]
                          f == FilterTo(node, remove)
                      IN  IF prev.raised \/ node.cshape = "none" THEN prev
                          ELSE IF f.raised THEN [prev EXCEPT !.raised = TRUE]
                          ELSE [prev EXCEPT !.objs[kept[k]] = f.node]
             done == Rewrite[Len(kept)]
         IN  [objs |-> done.objs, keys |-> kept, rebound |-> TRUE,
              fate |-> IF done.raised THEN ExceptFate ELSE "resolved",
              raised |-> done.raised]

\* connections[label] = target on a mapping: replace the entry for an
\* existing key in place, else add it at the end.
SetLabel(conns, label, target) ==
    IF \E k \in 1..Len(conns) : conns[k].label = label
    THEN [k \in 1..Len(conns) |->
             IF conns[k].label = label THEN [label |-> label, target |-> target]
             ELSE conns[k]]
    ELSE Append(conns, [label |-> label, target |-> target])

\* del connections[label]
DelLabel(conns, label) == SelectSeq(conns, LAMBDA c : c.label # label)

\* One iteration of the modified_nodes loop of _apply_modifications on the
\* node objects objs held by a container with the given keys.  The nodes are
\* the objects of the input tree (tree.copy() is shallow) and are changed in
\* place.  mod.node_id in nodes is false for every id when nodes is a list of
\* node dicts.
ApplyMod(mod, objs, keys, ns) ==
    IF ns # "dict" \/ mod.node_id \notin Range(keys)
    THEN [objs |-> objs, raised |-> FALSE]
    ELSE LET node == objs[mod.node_id]
             t == mod.modification_type
         IN
         IF t = "update_condition"
         THEN [objs |-> [objs EXCEPT ![mod.node_id].cond = mod.new_value],
               raised |-> FALSE]
         ELSE IF t = "update_text"
         THEN [objs |-> [objs EXCEPT ![mod.node_id].text = mod.new_value],
               raised |-> FALSE]
         ELSE IF t = "add_connection"
         THEN LET withConns == IF node.cshape = "none"
                               THEN [node EXCEPT !.cshape = "map"] ELSE node
              IN  IF ~mod.new_value.colon
                  THEN [objs |-> [objs EXCEPT ![mod.node_id] = withConns],
                        raised |-> FALSE]
                  ELSE IF withConns.cshape # "map"
                  THEN [objs |-> objs, raised |-> TRUE]
                  ELSE [objs |-> [objs EXCEPT ![mod.node_id] =
                                     [withConns EXCEPT !.conns =
                                         SetLabel(withConns.conns, mod.new_value.head,
                                                  mod.new_value.tail)]],
                        raised |-> FALSE]
         ELSE IF t = "remove_connection" /\ node.cshape = "map"
         THEN [objs |-> [objs EXCEPT ![mod.node_id].conns =
                            DelLabel(node.conns, mod.old_value)],
               raised |-> FALSE]
         ELSE [objs |-> objs, raised |-> FALSE]

\* One iteration of the removed_connections loop: "from_node:condition".
RemoveConnection(conn_spec, objs, keys, ns) ==
    IF /\ conn_spec.colon
       /\ ns = "dict"
       /\ conn_spec.head \in Range(keys)
       /\ objs[conn_spec.head].cshape = "map"
    THEN [objs EXCEPT ![conn_spec.head].conns =
             DelLabel(objs[conn_spec.head].conns, conn_spec.tail)]
    ELSE objs

ApplyPartial(resolution, objs, keys, ns) ==
    LET mods == resolution.modified_nodes
        Loop[k \in 0..Len(mods)] ==
            IF k = 0 THEN [objs |-> objs, raised |-> FALSE]
            ELSE IF Loop[k - 1].raised THEN Loop[k - 1]
            ELSE ApplyMod(mods[k], Loop[k - 1].objs, keys, ns)
    IN  Loop[Len(mods)]

\* _apply_modifications: the modified_nodes loop, then the new_nodes loop
\* (nodes[new_node.id] = ..., a TypeError on a list), then the
\* removed_connections loop.  keys is the key order of the one nodes
\* container, which the shallow copy shares with the input tree.
apply_modifications(resolution, objs, keys, ns) ==
    LET m == ApplyPartial(resolution, objs, keys, ns)
        new == resolution.new_nodes
        Add[k \in 0..Len(new)] ==
            IF k = 0 THEN [objs |-> m.objs, keys |-> keys]
            ELSE LET prev == Add[k - 1]
                     id == new[k].id
                 IN  [objs |-> (id :> new[k].node) @@ prev.objs,
                      keys |-> IF id \in Range(prev.keys) THEN prev.keys
                               ELSE Append(prev.keys, id)]
        added == Add[Len(new)]
        rem == resolution.removed_connections
        Remove[k \in 0..Len(rem)] ==
            IF k = 0 THEN added.objs
            ELSE RemoveConnection(rem[k], Remove[k - 1], added.keys, ns)
    IN  IF m.raised THEN [objs |-> m.objs, keys |-> keys, raised |-> TRUE]
        ELSE IF new # << >> /\ ns # "dict"
        THEN [objs |-> m.objs, keys |-> keys, raised |-> TRUE]
        ELSE [objs |-> Remove[Len(rem)], keys |-> added.keys, raised |-> FALSE]

\* One iteration of the loop of _resolve_contradictory_paths, given the
\* collaborator's reply.
resolve_contradictory(reply, objs, keys, ns) ==
    IF ~reply.ok
    THEN [objs |-> objs, keys |-> keys, fate |-> ExceptFate, raised |-> TRUE]
    ELSE LET r == apply_modifications(reply, objs, keys, ns) IN
         [objs |-> r.objs, keys |-> r.keys,
          fate |-> IF r.raised THEN ExceptFate ELSE "resolved",
          raised |-> r.raised]

HandledTypes == {conflicts[k].type : k \in 1..Len(conflicts)}

\* _group_conflicts_by_type keeps the groups in order of first occurrence and
\* the handlers run group by group: the next conflict handled continues the
\* current group or opens a group of a type not seen yet.
NextInGroupOrder(c) ==
    /\ rpc = "running"
    /\ Len(conflicts) < MaxConflicts
    /\ IF conflicts = << >> THEN TRUE
       ELSE \/ c.type = conflicts[Len(conflicts)].type
            \/ c.type \notin HandledTypes

\* results['resolved'] / results['unresolved'] after the handler's iteration
\* for conflict c; last remembers the graph the iteration started from,
\* whether its try block raised and what the collaborator had returned.
Record(c, fate, raised, reply) ==
    /\ conflicts' = Append(conflicts, c)
    /\ resolutions' = IF fate = "resolved" THEN Append(resolutions, c) ELSE resolutions
    /\ unresolved' = IF fate = "unresolved" THEN Append(unresolved, c) ELSE unresolved
    /\ last' = [conflict |-> c, fate |-> fate, before |-> ResolvedTree,
                raised |-> raised, reply |-> reply]
    /\ UNCHANGED <<rpc, nshape, tree0>>

\* resolve_conflicts up to the dispatch loop, for a non-empty conflict list.
BeginPass ==
    /\ rpc = "input"
    /\ rpc' = "running"
    /\ UNCHANGED <<nshape, node_objs, tree_nodes, resolved_nodes, tree0, conflicts,
                   resolutions, unresolved, same_container, last>>
    /\ UNCHANGED notRes

ResolveContradictory ==
    /\ \E c \in ConflictInputs, reply \in LlmReplies :
        /\ c.type = "contradictory_paths"
        /\ NextInGroupOrder(c)
        /\ LET r == resolve_contradictory(reply, node_objs, resolved_nodes, nshape) IN
            /\ node_objs' = r.objs
            /\ resolved_nodes' = r.keys
            /\ tree_nodes' = IF same_container THEN r.keys ELSE tree_nodes
            /\ Record(c, r.fate, r.raised, reply)
    /\ UNCHANGED same_container
    /\ UNCHANGED notRes

ResolveCircular ==
    /\ \E c \in ConflictInputs :
        /\ c.type = "circular_dependency"
        /\ NextInGroupOrder(c)
        /\ LET r == resolve_circular(c, node_objs, resolved_nodes) IN
            /\ node_objs' = r.objs
            /\ Record(c, r.fate, r.raised, LlmFailure)
    /\ UNCHANGED <<tree_nodes, resolved_nodes, same_container>>
    /\ UNCHANGED notRes

\* nodes was read from the tree when the handler was entered; no earlier
\* handler rebinds tree['nodes'], so it is the container of the input tree.
ResolveRedundant ==
    /\ \E c \in ConflictInputs :
        /\ c.type = "redundant_paths"
        /\ NextInGroupOrder(c)
        /\ LET r == resolve_redundant(c, node_objs, resolved_nodes, tree_nodes, nshape) IN
            /\ node_objs' = r.objs
            /\ resolved_nodes' = r.keys
            /\ same_container' = (same_container /\ ~r.rebound)
            /\ Record(c, r.fate, r.raised, LlmFailure)
    /\ UNCHANGED tree_nodes
    /\ UNCHANGED notRes

\* generate_text returns the collaborator's answer as text or raises; the
\* answer is stored in the resolution entry and the graph is not touched.
ResolveOverlapping ==
    /\ \E c \in ConflictInputs, reply \in LlmReplies :
        /\ c.type = "overlapping_conditions"
        /\ NextInGroupOrder(c)
        /\ Record(c, IF reply.ok THEN "resolved" ELSE ExceptFate, ~reply.ok, reply)
    /\ UNCHANGED <<node_objs, tree_nodes, resolved_nodes, same_container>>
    /\ UNCHANGED notRes

KnownTypes == {"contradictory_paths", "circular_dependency", "redundant_paths",
               "overlapping_conditions"}

ResolveUnknown ==
    /\ \E c \in ConflictInputs :
        /\ c.type \notin KnownTypes
        /\ NextInGroupOrder(c)
        /\ Record(c, "unresolved", FALSE, LlmFailure)
    /\ UNCHANGED <<node_objs, tree_nodes, resolved_nodes, same_container>>
    /\ UNCHANGED notRes

\* The return of resolve_conflicts: at once for an empty list, else after the
\* last group.
ReturnResult ==
    /\ \/ rpc = "input"
       \/ rpc = "running" /\ conflicts # << >>
    /\ rpc' = "done"
    /\ UNCHANGED <<nshape, node_objs, tree_nodes, resolved_nodes, tree0, conflicts,
                   resolutions, unresolved, same_container, last>>
    /\ UNCHANGED notRes

ResIds == <<N1, N3, N4>>

ResTreeChoice(tree) ==
    \E l1 \in 0..ResEdges, l2 \in 0..ResEdges, l3 \in 0..ResEdges :
        /\ l1 + l2 + l3 <= ResEdges
        /\ \E c1 \in [1..l1 -> Range(ResIds)], c2 \in [1..l2 -> Range(ResIds)],
              c3 \in [1..l3 -> Range(ResIds)],
              ns \in {"dict", "list"}, cs \in {"map", "rec", "to"} :
                tree = [nshape |-> ns, order |-> ResIds,
                        nodes |-> (N1 :> MkNode(cs, c1) @@ N3 :> MkNode(cs, c2)
                                   @@ N4 :> MkNode(cs, c3))]

ResInit ==
    /\ rpc = "input"
    /\ ResTreeChoice(tree0)
    /\ nshape = tree0.nshape
    /\ node_objs = tree0.nodes
    /\ tree_nodes = tree0.order
    /\ resolved_nodes = tree0.order
    /\ conflicts = << >>
    /\ resolutions = << >>
    /\ unresolved = << >>
    /\ same_container = TRUE
    /\ last = [conflict |-> Conflict("none", << >>), fate |-> "none", before |-> tree0,
               raised |-> FALSE, reply |-> LlmFailure]

ResOff ==
    /\ rpc = "off"
    /\ nshape = "dict"
    /\ node_objs = << >>
    /\ tree_nodes = << >>
    /\ resolved_nodes = << >>
    /\ tree0 = << >>
    /\ conflicts = << >>
    /\ resolutions = << >>
    /\ unresolved = << >>
    /\ same_container = TRUE
    /\ last = << >>

ResNext ==
    \/ BeginPass
    \/ ResolveContradictory
    \/ ResolveCircular
    \/ ResolveRedundant
    \/ ResolveOverlapping
    \/ ResolveUnknown
    \/ ReturnResult

(***************************************************************************)
(* ValidationAgent: the conflict detectors                                 *)
(***************************************************************************)
\* Largest total number of connections of a tree given to validate.
ValEdges == 2

D1 == "d1"
D2 == "d2"
D3 == "d3"
O1 == "o1"
O2 == "o2"

\* Condition texts, as the words str.split() yields.
WordsHasDiabetes == <<"Has", "diabetes">>
WordsDiabetesType2 == <<"has", "Diabetes", "type", "2">>
WordsType2 == <<"diabetes", "Type", "2">>
ConditionTexts == {WordsHasDiabetes, WordsDiabetesType2, WordsType2}

\* str.lower() on one word
Lower(word) ==
    CASE word = "Has" -> "has"
      [] word = "Diabetes" -> "diabetes"
      [] word = "Type" -> "type"
      [] OTHER -> word

\* A node of a validated tree: 'type', 'condition' (decision nodes),
\* 'decision' (outcome nodes) and 'connections'.
DecisionNodeOf(condition, cs, targets) ==
    [type |-> "decision", condition |-> condition, decision |-> NoValue,
     cshape |-> IF cs = "to" /\ targets = << >> THEN "rec" ELSE cs,
     conns |-> [k \in 1..Len(targets) |->
                   [label |-> LabelNames[k], target |-> targets[k]]]]

OutcomeNodeOf(decision) ==
    [type |-> "outcome", condition |-> << >>, decision |-> decision,
     cshape |-> "none", conns |-> << >>]

DetectedConflict(type, nodes, severity) ==
    [type |-> type, nodes |-> nodes, severity |-> severity]

\* _find_node_by_id: has the tree a node with this id
FindsNode(tree, node_id) == node_id \in Range(tree.order)

\* The targets the contradictory-paths detector looks up: the values of a
\* mapping, or connection.get('to') of each list element (None for a
\* {condition, target_node_id} record, which finds no node).
LookedUpTargets(node) ==
    IF node.cshape \in {"map", "to"}
    THEN [k \in 1..Len(node.conns) |-> node.conns[k].target]
    ELSE << >>

\* outcomes: the decision labels of the directly connected outcome nodes
OutcomesOf(tree, node) ==
    {tree.nodes[t].decision :
        t \in {u \in Range(LookedUpTargets(node)) :
                  FindsNode(tree, u) /\ tree.nodes[u].type = "outcome"}}

\* condition_outcomes[condition] is set by the first node with that
\* condition and never updated: every later node is compared with it.
FirstWithCondition(tree, k) ==
    CHOOSE j \in 1..k :
        /\ tree.nodes[tree.order[j]].type = "decision"
        /\ tree.nodes[tree.order[j]].condition = tree.nodes[tree.order[k]].condition
        /\ \A i \in 1..(j - 1) :
              ~(/\ tree.nodes[tree.order[i]].type = "decision"
                /\ tree.nodes[tree.order[i]].condition =
                       tree.nodes[tree.order[k]].condition)

detect_contradictory_paths(tree) ==
    LET Loop[k \in 0..Len(tree.order)] ==
            IF k = 0 THEN << >>
            ELSE LET node == tree.nodes[tree.order[k]]
                     first == tree.nodes[tree.order[FirstWithCondition(tree, k)]]
                 IN  IF /\ node.type = "decision"
                        /\ FirstWithCondition(tree, k) # k
                        /\ OutcomesOf(tree, first) # OutcomesOf(tree, node)
                     THEN Append(Loop[k - 1],
                                 DetectedConflict("contradictory_paths",
                                                  <<tree.order[k]>>, "high"))
                     ELSE Loop[k - 1]
    IN  Loop[Len(tree.order)]

\* find_all_paths as the value it returns (the step-by-step call is the
\* path enumerator above): the nested dfs
RECURSIVE PathsDfs(_, _, _, _, _)
PathsDfs(tree, current_id, target_id, path, visited) ==
    IF current_id = target_id THEN <<FoundPath(path, current_id)>>
    ELSE IF current_id \in visited THEN << >>
    ELSE LET seen == visited \cup {current_id}
             here == Append(path, current_id)
             targets == ConnTargets(tree, current_id)
             Loop[k \in 0..Len(targets)] ==
                 IF k = 0 THEN << >>
                 ELSE IF targets[k] \in NodeIds(tree) /\ targets[k] \notin seen
                 THEN Loop[k - 1] \o PathsDfs(tree, targets[k], target_id, here, seen)
                 ELSE Loop[k - 1]
         IN  Loop[Len(targets)]

find_all_paths(tree, start, end) ==
    IF \/ tree.nshape = "list"
       \/ start \notin NodeIds(tree)
       \/ end \notin NodeIds(tree)
    THEN << >>
    ELSE PathsDfs(tree, start, end, << >>, {})

\* The concatenation of a sequence of sequences.
Concat(ss) ==
    LET F[k \in 0..Len(ss)] == IF k = 0 THEN << >> ELSE F[k - 1] \o ss[k]
    IN  F[Len(ss)]

\* The first occurrence of each element, in order.
Dedupe(s) ==
    LET F[k \in 0..Len(s)] ==
            IF k = 0 THEN << >>
            ELSE IF s[k] \in Range(F[k - 1]) THEN F[k - 1] ELSE Append(F[k - 1], s[k])
    IN  F[Len(s)]

\* outcome_nodes: the nodes carrying a 'decision'
IsOutcomeNode(tree, id) == tree.nodes[id].decision # NoValue

\* referenced_nodes: the values of mapping connections and the 'to' of list
\* elements that have one
ReferencedNodes(tree) ==
    UNION {Range(LookedUpTargets(tree.nodes[id])) : id \in Range(tree.order)}

\* start_nodes, with the fall-back to the nodes that are no outcome
StartNodes(tree) ==
    LET unreferenced == KeepOut(tree.order, ReferencedNodes(tree)) IN
    IF unreferenced # << >> THEN unreferenced
    ELSE SelectSeq(tree.order, LAMBDA id : ~IsOutcomeNode(tree, id))

\* conditions: the non-empty condition texts of path[:-1]
PathConditions(tree, path) ==
    LET inner == SubSeq(path, 1, Len(path) - 1)
        texts == [k \in 1..Len(inner) |-> tree.nodes[inner[k]].condition]
    IN  SelectSeq(texts, LAMBDA t : t # << >>)

\* outcome_paths is keyed by the outcome node's decision label
OutcomeKey(tree, outcome_id) == tree.nodes[outcome_id].decision

\* The records appended to outcome_paths, in the order they are appended,
\* each with the key it is filed under.
OutcomePathEntries(tree) ==
    LET outs == SelectSeq(tree.order, LAMBDA id : IsOutcomeNode(tree, id))
        starts == StartNodes(tree)
        For(o, st) ==
            LET paths == find_all_paths(tree, st, o) IN
            [k \in 1..Len(paths) |->
                [outcome |-> OutcomeKey(tree, o),
                 conditions |-> PathConditions(tree, paths[k]),
                 nodes |-> paths[k]]]
    IN  Concat([i \in 1..Len(outs) |->
                   Concat([j \in 1..Len(starts) |-> For(outs[i], starts[j])])])

\* The second loop of _detect_redundant_paths over the filed records:
\* within one key, a path whose non-empty signature was already filed is a
\* conflict with the first path filed under that signature.
RedundantAmong(entries) ==
    LET keys == Dedupe([k \in 1..Len(entries) |-> entries[k].outcome])
        ForKey(key) ==
            LET paths == SelectSeq(entries, LAMBDA e : e.outcome = key)
                First(k) == CHOOSE j \in 1..k :
                                /\ paths[j].conditions = paths[k].conditions
                                /\ \A i \in 1..(j - 1) :
                                      paths[i].conditions # paths[k].conditions
                Loop[k \in 0..Len(paths)] ==
                    IF k = 0 THEN << >>
                    ELSE IF paths[k].conditions # << >> /\ First(k) # k
                    THEN Append(Loop[k - 1],
                                DetectedConflict("redundant_paths",
                                    paths[k].nodes \o paths[First(k)].nodes, "medium"))
                    ELSE Loop[k - 1]
            IN  Loop[Len(paths)]
    IN  Concat([i \in 1..Len(keys) |-> ForKey(keys[i])])

detect_redundant_paths(tree) ==
    CHOOSE found \in {RedundantAmong(entries) :
                         entries \in {OutcomePathEntries(tree)}} : TRUE

\* set(condition.lower().split()) minus common_words
Stopwords == {"is", "the", "and", "or", "not", "has", "have", "with", "than",
              "greater", "less"}
Keywords(condition) == {Lower(condition[k]) : k \in 1..Len(condition)}

MinCommonWords == 2

OverlapKeepingStopwords(condition1, condition2) ==
    Cardinality(Keywords(condition1) \cap Keywords(condition2)) >= MinCommonWords
conditions_overlap(condition1, condition2) ==
    Cardinality((Keywords(condition1) \cap Keywords(condition2)) \ Stopwords)
        >= MinCommonWords

detect_overlapping_conditions(tree) ==
    LET decision_nodes == SelectSeq(tree.order,
                                    LAMBDA id : tree.nodes[id].type = "decision")
        n == Len(decision_nodes)
        Inner(i) ==
            LET F[j \in i..n] ==
                    IF j = i THEN << >>
                    ELSE IF conditions_overlap(tree.nodes[decision_nodes[i]].condition,
                                               tree.nodes[decision_nodes[j]].condition)
                    THEN Append(F[j - 1],
                                DetectedConflict("overlapping_conditions",
                                    <<decision_nodes[i], decision_nodes[j]>>, "low"))
                    ELSE F[j - 1]
            IN  F[n]
    IN  Concat([i \in 1..n |-> Inner(i)])

\* _detect_circular_dependencies: one conflict per reported cycle; an error
\* of detect_circular_references is caught and gives no conflict.
detect_circular_dependencies(tree) ==
    LET d == detect_circular_references(tree) IN
    IF d.raised THEN << >>
    ELSE [k \in 1..Len(d.cycles) |->
             DetectedConflict("circular_dependency", d.cycles[k], "critical")]

\* Number of validate calls made on the tree.
ValRuns == 2

\* conflicts = [] at the start of validate
CarriedConflicts == vresult.conflicts
InitialConflicts == << >>

\* The lists the four detectors return for one tree.
DetectorLists(tree) ==
    [contradictory |-> detect_contradictory_paths(tree),
     circular |-> detect_circular_dependencies(tree),
     redundant |-> detect_redundant_paths(tree),
     overlapping |-> detect_overlapping_conditions(tree)]

\* conflicts.extend(...) for each detector in the order validate calls them
ExtendAll(initial, lists) ==
    initial \o lists.contradictory \o lists.circular \o lists.redundant
        \o lists.overlapping

\* validate: the four detectors in order, their lists concatenated.  (The
\* collaborator-backed checks of validate only add to 'issues'.)
Validate ==
    /\ vruns < ValRuns
    /\ \E lists \in {DetectorLists(vtree)} :
         \E all \in {ExtendAll(InitialConflicts, lists)} :
            /\ vresult' = [contradictory |-> lists.contradictory,
                           circular |-> lists.circular,
                           redundant |-> lists.redundant,
                           overlapping |-> lists.overlapping,
                           conflicts |-> all]
            /\ vfirst' = IF vruns = 0 THEN all ELSE vfirst
    /\ vruns' = vruns + 1
    /\ UNCHANGED vtree
    /\ UNCHANGED notVal

ValIds == <<D1, D2, D3, O1, O2>>

ValTreeChoice(tree) ==
    \E l1 \in 0..ValEdges, l2 \in 0..ValEdges, l3 \in 0..ValEdges :
        /\ l1 + l2 + l3 <= ValEdges
        /\ \E c1 \in [1..l1 -> Range(ValIds)], c2 \in [1..l2 -> Range(ValIds)],
              c3 \in [1..l3 -> Range(ValIds)],
              t1 \in ConditionTexts, t2 \in ConditionTexts, t3 \in ConditionTexts,
              label2 \in {"APPROVED", "DENIED"},
              ns \in {"dict", "list"}, cs \in {"map", "rec", "to"} :
                tree = [nshape |-> ns, order |-> ValIds,
                        nodes |-> (D1 :> DecisionNodeOf(t1, cs, c1)
                                   @@ D2 :> DecisionNodeOf(t2, cs, c2)
                                   @@ D3 :> DecisionNodeOf(t3, cs, c3)
                                   @@ O1 :> OutcomeNodeOf("APPROVED")
                                   @@ O2 :> OutcomeNodeOf(label2))]

NoLists == [contradictory |-> << >>, circular |-> << >>, redundant |-> << >>,
            overlapping |-> << >>, conflicts |-> << >>]

ValInit ==
    /\ vruns = 0
    /\ ValTreeChoice(vtree)
    /\ vresult = NoLists
    /\ vfirst = << >>

ValOff ==
    /\ vruns = 0
    /\ vtree = << >>
    /\ vresult = << >>
    /\ vfirst = << >>

ValNext == Validate

(***************************************************************************)
(* validate_tree_structure and find_root_nodes                             *)
(***************************************************************************)
\* Largest total number of connections of a structurally validated graph.
StructEdges == 3
\* TraversalConfig.max_depth when the caller passes none.
DefaultMaxDepth == 50

\* A connection value: a plain id, or a nested object (a non-empty dict)
\* whose 'id' field is target, NoValue when the object has no 'id'.
PlainTarget(id) == [kind |-> "id", target |-> id]
ObjectTarget(id) == [kind |-> "object", target |-> id]
IsObject(conn) == conn.kind = "object"

\* A node whose connections, in wire shape cs, hold the given values.
MkStructNode(cs, values) ==
    [cshape |-> cs,
     conns |-> [k \in 1..Len(values) |->
                  [label |-> LabelNames[k], target |-> values[k].target,
                   kind |-> values[k].kind]]]

\* The issue strings.
SelfReference(id) == [issue |-> "self-reference", node |-> id, target |-> id]
NonExistent(id, target) == [issue |-> "non-existent", node |-> id, target |-> target]
CircularFrom(id) == [issue |-> "circular", node |-> id, target |-> id]
NotADictionary == [issue |-> "not-a-dictionary", node |-> NoValue, target |-> NoValue]

\* elif target_id not in nodes
NeverMissing(tree, target) == FALSE
IsMissing(tree, target) == target \notin NodeIds(tree)

\* The checks of the first loop on one connection of node id.  A dict
\* compares unequal to node_id, is truthy, and is unhashable: testing
\* `target_id not in nodes` raises TypeError in both shapes.
CheckConnection(tree, id, conn) ==
    IF IsObject(conn)
    THEN [raised |-> TRUE, issues |-> << >>]
    ELSE IF conn.target = id
    THEN [raised |-> FALSE, issues |-> <<SelfReference(id)>>]
    ELSE IF IsMissing(tree, conn.target)
    THEN [raised |-> FALSE, issues |-> <<NonExistent(id, conn.target)>>]
    ELSE [raised |-> FALSE, issues |-> << >>]

\* for node_id, node in nodes.items(): for ... in connections: from
\* connection k of the node at position n on, with the issues found so far.
RECURSIVE CheckFrom(_, _, _, _)
CheckFrom(tree, n, k, issues) ==
    IF n > Len(tree.order)
    THEN [raised |-> FALSE, issues |-> issues]
    ELSE LET id == tree.order[n]
             node == tree.nodes[id]
         IN  IF k > Len(node.conns) \/ node.cshape \notin {"map", "rec"}
             THEN CheckFrom(tree, n + 1, 1, issues)
             ELSE LET one == CheckConnection(tree, id, node.conns[k])
                  IN  IF one.raised
                      THEN [raised |-> TRUE, issues |-> issues]
                      ELSE CheckFrom(tree, n, k + 1, issues \o one.issues)

\* find_root_nodes: the nodes no connection references (a mapping value
\* that is a dict with an 'id' counts as a reference to that id; a record's
\* target_node_id counts only when it is a string), else the first node.
ReferencedBy(node) ==
    {node.conns[k].target : k \in
        {j \in 1..Len(node.conns) :
            \/ node.cshape = "map" /\ node.conns[j].target # NoValue
            \/ node.cshape = "rec" /\ ~IsObject(node.conns[j])}}

find_root_nodes(tree) ==
    LET referenced_nodes == UNION {ReferencedBy(tree.nodes[id]) : id \in NodeIds(tree)}
        root_nodes == KeepOut(tree.order, referenced_nodes)
    IN  IF tree.order = << >> THEN << >>
        ELSE IF root_nodes = << >> THEN <<tree.order[1]>>
        ELSE root_nodes

\* The inner get_children on a node that may hold nested objects: in a
\* mapping an object is replaced by its 'id' (None when it has none, which
\* `if target_id and ...` skips); in a list `target_id in all_nodes`
\* raises TypeError on an object.
NormalizedTargets(tree, id) ==
    LET node == tree.nodes[id]
    IN  [k \in 1..Len(node.conns) |-> node.conns[k].target]

ChildrenOf(tree, id) ==
    LET node == tree.nodes[id]
    IN  IF node.cshape = "rec" /\ \E k \in 1..Len(node.conns) : IsObject(node.conns[k])
        THEN [raised |-> TRUE, children |-> << >>]
        ELSE [raised |-> FALSE,
              children |-> IF node.cshape \in {"map", "rec"}
                           THEN KeepIn(NormalizedTargets(tree, id), NodeIds(tree))
                           ELSE << >>]

\* TraversalConfig(detect_cycles=True, log_warnings=False)
ValidatorConfig ==
    [max_depth |-> DefaultMaxDepth, detect_cycles |-> TRUE, raise_on_cycle |-> FALSE]

\* _traverse_recursive run to completion from node id at the given depth
\* with current path `path`; acc carries the visits made so far, whether a
\* cycle was detected and whether get_children raised.
RECURSIVE Walk(_, _, _, _, _), WalkChildren(_, _, _, _, _, _)
Walk(tree, id, depth, path, acc) ==
    IF acc.raised \/ DepthExceeded(depth, ValidatorConfig)
    THEN acc
    ELSE IF OnCurrentPath(id, path, ValidatorConfig)
    THEN [acc EXCEPT !.cycle = TRUE]
    ELSE LET got == ChildrenOf(tree, id)
             here == [acc EXCEPT !.visits = Append(@, id)]
         IN  IF got.raised
             THEN [here EXCEPT !.raised = TRUE]
             ELSE WalkChildren(tree, got.children, 1, depth + 1, Append(path, id), here)

WalkChildren(tree, children, i, depth, path, acc) ==
    IF i > Len(children) \/ acc.raised
    THEN acc
    ELSE WalkChildren(tree, children, i + 1, depth, path,
                      Walk(tree, children[i], depth, path, acc))

\* traverser.has_cycle() after the traversal from one root
HasCycleNever(walked) == FALSE
HasCycle(walked) == walked.cycle

\* for root in root_nodes: traverse_tree(root, ...); if has_cycle(): issue
RECURSIVE CheckRoots(_, _, _, _)
CheckRoots(tree, roots, n, res) ==
    IF n > Len(roots) \/ res.raised
    THEN res
    ELSE LET walked == Walk(tree, roots[n], 0, << >>,
                            [raised |-> FALSE, cycle |-> FALSE, visits |-> << >>])
         IN  CheckRoots(tree, roots, n + 1,
                 [raised |-> walked.raised,
                  issues |-> IF HasCycle(walked) /\ ~walked.raised
                             THEN Append(res.issues, CircularFrom(roots[n]))
                             ELSE res.issues,
                  visits |-> res.visits \o walked.visits])

\* The error that leaves the call.
Raised ==
    [raised |-> TRUE, is_valid |-> FALSE, issues |-> << >>, visits |-> << >>,
     roots |-> << >>]

\* validate_tree_structure(nodes): (raised) or (is_valid, issues), with
\* the roots it inferred and the ids the internal traversals visited.
validate_tree_structure(tree) ==
    IF tree.nshape # "dict"
    THEN [raised |-> FALSE, is_valid |-> FALSE, issues |-> <<NotADictionary>>,
          visits |-> << >>, roots |-> << >>]
    ELSE LET checked == CheckFrom(tree, 1, 1, << >>)
         IN  IF checked.raised THEN Raised
             ELSE LET res == CheckRoots(tree, find_root_nodes(tree), 1,
                                 [raised |-> FALSE, issues |-> checked.issues,
                                  visits |-> << >>])
                  IN  IF res.raised THEN Raised
                      ELSE [raised |-> FALSE, is_valid |-> res.issues = << >>,
                            issues |-> res.issues, visits |-> res.visits,
                            roots |-> find_root_nodes(tree)]

ValidateStructure ==
    /\ spc = "input"
    /\ sresult' = validate_tree_structure(snodes)
    /\ spc' = "done"
    /\ UNCHANGED snodes
    /\ UNCHANGED notStruct

\* The connection values of the validated graphs: an id of the graph, the
\* id nx of no node, a nested object naming n2, a nested object without id.
StructValues ==
    {PlainTarget(t) : t \in {N1, N2, N3, Ghost}}
        \cup {ObjectTarget(N2), ObjectTarget(NoValue)}

StructInit ==
    /\ spc = "input"
    /\ \E ns \in {"dict", "list"}, cs \in {"map", "rec"} :
       \E l1 \in 0..StructEdges, l2 \in 0..StructEdges, l3 \in 0..StructEdges :
         /\ l1 + l2 + l3 <= StructEdges
         /\ \E c1 \in [1..l1 -> StructValues], c2 \in [1..l2 -> StructValues],
               c3 \in [1..l3 -> StructValues] :
              snodes = [nshape |-> ns, order |-> <<N1, N2, N3>>,
                        nodes |-> (N1 :> MkStructNode(cs, c1) @@ N2 :> MkStructNode(cs, c2)
                                     @@ N3 :> MkStructNode(cs, c3))]
    /\ sresult = << >>

\* No structural validation in progress.
StructOff ==
    /\ spc = "off"
    /\ snodes = << >>
    /\ sresult = << >>

StructNext == ValidateStructure

(***************************************************************************)
(* Specifications.  Each runs one component; the state of the others is    *)
(* held at its "off" value.  A started call always takes its next step     *)
(* (the engine is single-threaded and synchronous), which is the weak      *)
(* fairness on the steps inside a call; starting a call is up to the       *)
(* caller.                                                                 *)
(***************************************************************************)
TravSpecInit == TravInit /\ CycOff /\ PathOff /\ ResOff /\ ValOff /\ StructOff

TravSpec == TravSpecInit /\ [][TravNext]_vars /\ WF_vars(TravStep)

CycSpecInit == CycInit /\ TravOff /\ PathOff /\ ResOff /\ ValOff /\ StructOff

CycSpec == CycSpecInit /\ [][CycNext]_vars

PathSpecInit == PathInit /\ TravOff /\ CycOff /\ ResOff /\ ValOff /\ StructOff

PathSpec == PathSpecInit /\ [][PathNext]_vars /\ WF_vars(PathStep)

ResolveSpecInit == ResInit /\ TravOff /\ CycOff /\ PathOff /\ ValOff /\ StructOff
ResolveSpec == ResolveSpecInit /\ [][ResNext]_vars

ValSpecInit == ValInit /\ TravOff /\ CycOff /\ PathOff /\ ResOff /\ StructOff
ValSpec == ValSpecInit /\ [][ValNext]_vars

StructSpecInit == StructInit /\ TravOff /\ CycOff /\ PathOff /\ ResOff /\ ValOff
StructSpec == StructSpecInit /\ [][StructNext]_vars

(***************************************************************************)
(* Properties of the traverser                                             *)
(***************************************************************************)
Running == tpc \in {"running", "unwinding"}
Finished == tpc \in {"returned", "raised"}

EventsOf(kind) == {k \in 1..Len(events) : events[k].kind = kind}

\* Some node reachable from the start of the current call lies on a cycle
\* of followed connections.
HasEdge(tree, u, v) == v \in Range(get_children(tree, u))

SelfOrMutualCycle(tree) ==
    \/ \E u \in NodeIds(tree) : HasEdge(tree, u, u)
    \/ \E u, v \in NodeIds(tree) : u # v /\ HasEdge(tree, u, v) /\ HasEdge(tree, v, u)

\* C1: a top-level traverse_tree call always ends: every running call
\* eventually has returned or, only when raise_on_cycle is set, has raised
\* the cycle error; the recursion never holds more than max_depth + 1
\* activation records.
C1_TraversalTerminates ==
    /\ [](Len(tstack) <= config.max_depth + 1)
    /\ [](tpc \in {"raised", "unwinding"} =>
             config.raise_on_cycle /\ config.detect_cycles)
    /\ (Running ~> Finished)

C1_Witness ==
    /\ tpc = "returned"
    /\ ~config.detect_cycles
    /\ config.max_depth = MaxDepthBound
    /\ HasEdge(all_nodes, N1, N1) /\ HasEdge(all_nodes, N1, N2) /\ HasEdge(all_nodes, N2, N1)
    /\ EventsOf("cut") # {}

\* Number of children of the nodes visited at depth d, summed over the log.
ChildrenAtDepth(d) ==
    LET F[k \in 0..Len(events)] ==
            IF k = 0 THEN 0
            ELSE F[k - 1] + (IF events[k].kind = "visit" /\ events[k].depth = d
                             THEN Len(get_children(all_nodes, events[k].node))
                             ELSE 0)
    IN  F[Len(events)]

\* C7: process_node is never invoked at a depth greater than max_depth, with
\* cycle detection enabled or disabled; with detection disabled nothing is
\* raised and no cycle stop happens, and when the call has returned every
\* child of a node visited at depth max_depth was cut at depth max_depth + 1
\* (and nothing is cut anywhere else).
C7_DepthBound ==
    /\ \A k \in EventsOf("visit") : events[k].depth <= config.max_depth
    /\ \A k \in EventsOf("cut") : events[k].depth = config.max_depth + 1
    /\ ~config.detect_cycles =>
         /\ tpc \notin {"raised", "unwinding"}
         /\ EventsOf("cycle") = {}
         /\ tpc = "returned" =>
              Cardinality(EventsOf("cut")) = ChildrenAtDepth(config.max_depth)

C7_Witness ==
    /\ tpc = "returned"
    /\ ~config.detect_cycles
    /\ SelfOrMutualCycle(all_nodes)
    /\ Cardinality(EventsOf("cut")) >= 2
    /\ \E k \in EventsOf("visit") : events[k].depth = config.max_depth /\ config.max_depth > 0

(***************************************************************************)
(* Properties of the cycle detector                                        *)
(***************************************************************************)
\* The connections of the tree between nodes it contains, as written in it.
Edges(tree) ==
    {<<u, v>> \in NodeIds(tree) \X NodeIds(tree) : v \in Range(RawTargets(tree, u))}

\* Pairs joined by a chain of one or more connections.
Closure(tree) ==
    LET R[k \in 0..Cardinality(NodeIds(tree))] ==
            IF k = 0 THEN Edges(tree)
            ELSE R[k - 1] \cup
                 {<<u, w>> \in NodeIds(tree) \X NodeIds(tree) :
                     \E v \in NodeIds(tree) : <<u, v>> \in R[k - 1] /\ <<v, w>> \in Edges(tree)}
    IN  R[Cardinality(NodeIds(tree))]

Acyclic(tree) == \A u \in NodeIds(tree) : <<u, u>> \notin Closure(tree)

IsCycleSequence(tree, c) ==
    /\ Len(c) >= 2
    /\ c[1] = c[Len(c)]
    /\ \A j, k \in 1..(Len(c) - 1) : j # k => c[j] # c[k]
    /\ \A j \in 1..(Len(c) - 1) : <<c[j], c[j + 1]>> \in Edges(tree)

\* C8: every cycle detect_circular_references returns has length >= 2, equal
\* first and last elements, pairwise distinct elements before the last, and
\* every consecutive pair is a connection of the tree between existing nodes.
C8_CyclesWellFormed ==
    cpc = "done" =>
        \A k \in 1..Len(cresult.cycles) : IsCycleSequence(ctree, cresult.cycles[k])

C8_Witness ==
    /\ cpc = "done"
    /\ \E k \in 1..Len(cresult.cycles) : Len(cresult.cycles[k]) = 3
    /\ \E k \in 1..Len(cresult.cycles) : Len(cresult.cycles[k]) = 2
    /\ \E u \in Ids3 : Ghost \in Range(RawTargets(ctree, u))

\* The graph that is exactly one 3-cycle through n1, n2 and n3.
Is3Cycle(tree) ==
    /\ tree.nshape = "dict"
    /\ \A u \in Ids3 : tree.nodes[u].cshape \in {"map", "rec"}
    /\ \/ \A u \in Ids3 : RawTargets(tree, u) = (N1 :> <<N2>> @@ N2 :> <<N3>> @@ N3 :> <<N1>>)[u]
       \/ \A u \in Ids3 : RawTargets(tree, u) = (N1 :> <<N3>> @@ N3 :> <<N2>> @@ N2 :> <<N1>>)[u]

\* C9: on the single 3-cycle the detector returns exactly one cycle, which
\* contains n1, n2 and n3; on every acyclic graph (a node reachable along
\* several paths included) it returns the empty list.
C9_CycleSoundness ==
    (cpc = "done" /\ ctree.nshape = "dict") =>
        /\ ~cresult.raised
        /\ Is3Cycle(ctree) =>
              /\ Len(cresult.cycles) = 1
              /\ Range(cresult.cycles[1]) = Ids3
              /\ IsCycleSequence(ctree, cresult.cycles[1])
        /\ Acyclic(ctree) => cresult.cycles = << >>

C9_Witness ==
    /\ cpc = "done"
    /\ Is3Cycle(ctree)
    /\ cresult.cycles = << <<N1, N2, N3, N1>> >>

\* A reachable acyclic input with a node reached along two paths.
C9_SharedNodeReached ==
    /\ cpc = "done"
    /\ ctree.nshape = "dict"
    /\ ctree.nodes[N1].cshape = "map"
    /\ \A u \in Ids3 : RawTargets(ctree, u) = (N1 :> <<N2, N3>> @@ N2 :> <<N3>> @@ N3 :> << >>)[u]
    /\ cresult.cycles = << >>

(***************************************************************************)
(* Properties of the path enumerator                                       *)
(***************************************************************************)
IsSimplePath(tree, p, from, to) ==
    /\ Len(p) >= 1
    /\ p[1] = from
    /\ p[Len(p)] = to
    /\ \A j, k \in 1..Len(p) : j # k => p[j] # p[k]
    /\ \A j \in 1..(Len(p) - 1) : <<p[j], p[j + 1]>> \in Edges(tree)

\* C10: find_all_paths terminates on every graph, cyclic ones included (the
\* nested dfs never holds more activation records than there are nodes), and
\* every path it returns starts with start, ends with end, repeats no node id
\* and follows connections of the graph.
C10_PathsTerminateSimple ==
    /\ (ppc = "running" ~> ppc = "done")
    /\ [](ppc \in {"running", "done"} =>
            /\ Len(pstack) <= Cardinality(NodeIds(ptree))
            /\ \A k \in 1..Len(all_paths) :
                 IsSimplePath(ptree, all_paths[k], start_node_id, end_node_id))

C10_Witness ==
    /\ ppc = "done"
    /\ ~Acyclic(ptree)
    /\ Len(all_paths) >= 2
    /\ \E k \in 1..Len(all_paths) : Len(all_paths[k]) = 3

(***************************************************************************)
(* ConflictResolver properties                                             *)
(***************************************************************************)
Returned == rpc = "done"

\* C2: when resolve_conflicts returns, every input conflict is in exactly one
\* of 'resolutions' and 'unresolved' (the lengths add up to the number of
\* input conflicts, none is dropped), and a conflict of an unknown kind is in
\* 'unresolved'.
C2_EveryConflictAccounted ==
    Returned =>
        /\ Len(resolutions) + Len(unresolved) = Len(conflicts)
        /\ \A k \in 1..Len(conflicts) :
              /\ (conflicts[k] \in Range(resolutions))
                     # (conflicts[k] \in Range(unresolved))
              /\ conflicts[k].type \notin KnownTypes
                     => conflicts[k] \in Range(unresolved)

CycleN3N4 == Conflict("circular_dependency", <<N3, N4, N3>>)

\* some reported cycle steps from node u to node v
CycleUses(cycles, u, v) ==
    \E k \in 1..Len(cycles) : \E j \in 1..(Len(cycles[k]) - 1) :
        cycles[k][j] = u /\ cycles[k][j + 1] = v

\* C3: after the circular_dependency conflict [n3, n4, n3] has been handled
\* on a graph whose n4 holds the n4 -> n3 connection in one of the two
\* accepted wire shapes (label -> id mapping, list of {condition,
\* target_node_id} records), exactly that connection is gone, every other
\* connection of every node is intact, and detect_circular_references on the
\* returned graph reports no cycle through the n4 -> n3 step.
C3_CycleRepairRemovesEdge ==
    (/\ rpc \in {"running", "done"}
     /\ last.conflict = CycleN3N4
     /\ N4 \in Range(last.before.order)
     /\ last.before.nodes[N4].cshape \in {"map", "rec"}
     /\ N3 \in Range(RawTargets(last.before, N4)))
    => /\ node_objs[N4].conns =
              SelectSeq(last.before.nodes[N4].conns, LAMBDA c : c.target # N3)
       /\ \A id \in Range(last.before.order) \ {N4} :
              node_objs[id].conns = last.before.nodes[id].conns
       /\ resolved_nodes = last.before.order
       /\ nshape = "dict" =>
              LET d == detect_circular_references(ResolvedTree)
              IN  ~d.raised /\ ~CycleUses(d.cycles, N4, N3)

\* C4: after a redundant_paths conflict with more than one implicated node
\* has been handled, whether it ended in 'resolutions' or in 'unresolved',
\* the graph has strictly fewer nodes than before the attempt and no
\* surviving node has a connection whose target is a deleted id.
C4_RedundantRepairShrinks ==
    (/\ rpc \in {"running", "done"}
     /\ last.conflict.type = "redundant_paths"
     /\ Len(last.conflict.nodes) > 1
     /\ last.fate \in {"resolved", "unresolved"})
    => /\ Len(resolved_nodes) < Len(last.before.order)
       /\ \A id \in Range(resolved_nodes) :
              \A t \in Range(RawTargets(ResolvedTree, id)) :
                  t \notin (Range(last.before.order) \ Range(resolved_nodes))

\* C5: a contradictory_paths conflict whose repair failed (the collaborator
\* raised, or applying its Resolution raised part-way) is in 'unresolved' and
\* the graph is exactly the graph from before this conflict's attempt.
C5_FailedRepairLeavesGraph ==
    (/\ rpc \in {"running", "done"}
     /\ last.conflict.type = "contradictory_paths"
     /\ last.fate # "resolved")
    => /\ last.fate = "unresolved"
       /\ unresolved # << >>
       /\ unresolved[Len(unresolved)] = last.conflict
       /\ ResolvedTree = last.before

\* C6: after any call of resolve_conflicts the tree object the caller passed
\* in is unchanged in every node and every connection.
C6_CallerTreeUnchanged ==
    Returned => CallerTree = tree0

(***************************************************************************)
(* ValidationAgent detector properties                                     *)
(***************************************************************************)
Validated == vruns >= 1

DecisionIds(tree) == SelectSeq(tree.order, LAMBDA id : tree.nodes[id].type = "decision")

\* the decision labels of the outcome nodes a node is directly connected to
DirectOutcomeLabels(tree, id) ==
    {tree.nodes[t].decision :
        t \in {u \in Range(RawTargets(tree, id)) \cap Range(tree.order) :
                  tree.nodes[u].type = "outcome"}}

ListsNode(c, id) == c.type = "contradictory_paths" /\ c.nodes = <<id>> /\ c.severity = "high"

\* C11: after the contradictory-paths detector has run, for every two
\* distinct question nodes with the same condition text whose sets of
\* directly connected outcome labels differ there is a contradictory_paths
\* conflict of severity high listing the later node, and a node whose set
\* equals that of every earlier node with its condition is listed by none;
\* two "Has diabetes" nodes, one connected to an APPROVED and one to a DENIED
\* outcome, give exactly one conflict.
C11_ContradictionsDetected ==
    Validated =>
        LET ds == DecisionIds(vtree)
            Differ(i, j) ==
                /\ vtree.nodes[ds[i]].condition = vtree.nodes[ds[j]].condition
                /\ DirectOutcomeLabels(vtree, ds[i]) # DirectOutcomeLabels(vtree, ds[j])
            SameText(i, j) ==
                vtree.nodes[ds[i]].condition = vtree.nodes[ds[j]].condition
        IN  /\ \A j \in 1..Len(ds) :
                 /\ (\E i \in 1..(j - 1) : Differ(i, j))
                        => \E k \in 1..Len(vresult.contradictory) :
                              ListsNode(vresult.contradictory[k], ds[j])
                 /\ (\A i \in 1..(j - 1) : SameText(i, j) => ~Differ(i, j))
                        => \A k \in 1..Len(vresult.contradictory) :
                              vresult.contradictory[k].nodes # <<ds[j]>>
            /\ \A k \in 1..Len(vresult.contradictory) :
                 \E j \in 1..Len(ds) : ListsNode(vresult.contradictory[k], ds[j])
            /\ (/\ vtree.nodes[D1].condition = WordsHasDiabetes
                /\ vtree.nodes[D2].condition = WordsHasDiabetes
                /\ vtree.nodes[D3].condition # WordsHasDiabetes
                /\ DirectOutcomeLabels(vtree, D1) = {"APPROVED"}
                /\ DirectOutcomeLabels(vtree, D2) = {"DENIED"})
                   => Len(vresult.contradictory) = 1

\* C12: after the redundant-paths detector has run, every two distinct
\* enumerated paths that end at the same outcome node with identical
\* non-empty condition signatures have a redundant_paths conflict of severity
\* medium whose nodes are the union of the two paths' ids, and every emitted
\* conflict comes from such a pair: none from paths that are the same path,
\* that end at different outcome nodes, or whose signature is empty.
C12_RedundancyDetected ==
    Validated =>
        LET entries == OutcomePathEntries(vtree)
            Redundant(i, j) ==
                /\ entries[i].nodes # entries[j].nodes
                /\ entries[i].nodes[Len(entries[i].nodes)]
                       = entries[j].nodes[Len(entries[j].nodes)]
                /\ entries[i].conditions = entries[j].conditions
                /\ entries[i].conditions # << >>
            From(c, i, j) ==
                /\ c.type = "redundant_paths"
                /\ c.severity = "medium"
                /\ Range(c.nodes) = Range(entries[i].nodes) \cup Range(entries[j].nodes)
        IN  /\ \A i, j \in 1..Len(entries) :
                 Redundant(i, j) =>
                     \E k \in 1..Len(vresult.redundant) : From(vresult.redundant[k], i, j)
            /\ \A k \in 1..Len(vresult.redundant) :
                 \E i, j \in 1..Len(entries) :
                     Redundant(i, j) /\ From(vresult.redundant[k], i, j)

\* the words of a condition that are no stopwords, in lower case
SignificantWords(condition) == Keywords(condition) \ Stopwords

SharesTwoWords(tree, a, b) ==
    Cardinality(SignificantWords(tree.nodes[a].condition)
                    \cap SignificantWords(tree.nodes[b].condition)) >= 2

\* C13: after the overlapping-conditions detector has run, each unordered
\* pair of distinct question nodes whose lower-case word sets share at least
\* 2 words after removing the stopwords has exactly one overlapping_conditions
\* conflict (severity low, nodes = the two ids), no other pair has one, and
\* the pair test gives the same answer with its arguments swapped.
C13_OverlapsDetected ==
    Validated =>
        LET ds == DecisionIds(vtree)
            About(c, a, b) == c.nodes = <<a, b>> \/ c.nodes = <<b, a>>
            Hits(a, b) == {k \in 1..Len(vresult.overlapping) :
                              About(vresult.overlapping[k], a, b)}
        IN  /\ \A i, j \in 1..Len(ds) :
                 i < j =>
                    /\ Cardinality(Hits(ds[i], ds[j])) =
                           IF SharesTwoWords(vtree, ds[i], ds[j]) THEN 1 ELSE 0
                    /\ conditions_overlap(vtree.nodes[ds[i]].condition,
                                          vtree.nodes[ds[j]].condition)
                         = conditions_overlap(vtree.nodes[ds[j]].condition,
                                              vtree.nodes[ds[i]].condition)
            /\ \A k \in 1..Len(vresult.overlapping) :
                 /\ vresult.overlapping[k].type = "overlapping_conditions"
                 /\ vresult.overlapping[k].severity = "low"
                 /\ \E i, j \in 1..Len(ds) :
                       i < j /\ vresult.overlapping[k].nodes = <<ds[i], ds[j]>>

\* a pair with different texts is flagged, and a pair sharing two words of
\* which one is a stopword is not
C13_Witness ==
    /\ Validated
    /\ \E k \in 1..Len(vresult.overlapping) :
          LET c == vresult.overlapping[k] IN
          vtree.nodes[c.nodes[1]].condition # vtree.nodes[c.nodes[2]].condition
    /\ \E a, b \in Range(DecisionIds(vtree)) :
          /\ a # b
          /\ ~SharesTwoWords(vtree, a, b)
          /\ Cardinality(Keywords(vtree.nodes[a].condition)
                             \cap Keywords(vtree.nodes[b].condition)) >= 2

MaxChildren(tree) ==
    CHOOSE n \in 0..TravEdges :
        /\ \A id \in NodeIds(tree) : Len(get_children(tree, id)) <= n
        /\ \E id \in NodeIds(tree) : Len(get_children(tree, id)) = n

\* C18: during one traverse_tree call the number of process_node
\* invocations never exceeds max_depth times the largest number of children
\* any node has, on every graph.
C18_VisitBound ==
    tpc \in {"running", "unwinding", "returned", "raised"} =>
        Cardinality(EventsOf("visit")) <= config.max_depth * MaxChildren(all_nodes)

ContainOnly == config.detect_cycles /\ ~config.raise_on_cycle

NoRepeat(path) == \A i, j \in 1..Len(path) : i # j => path[i] # path[j]

\* a cycle of connections can be reached from node start
CycleReachable(tree, start) ==
    \E u \in NodeIds(tree) :
        /\ u = start \/ <<start, u>> \in Closure(tree)
        /\ <<u, u>> \in Closure(tree)

CycleStopAppended ==
    /\ Len(events') = Len(events) + 1
    /\ events'[Len(events')].kind = "cycle"

\* C19: with detect_cycles on and raise_on_cycle off, a branch is stopped as
\* a cycle only at a node whose id is on the current-path stack, without
\* raising and with has_cycle() true from then on; the stack never holds an
\* id twice; and has_cycle() is false when no cycle can be reached from the
\* start node (a shared descendant visited again through another branch is
\* no cycle).
C19_StackOnlyCycleDetection ==
    /\ [](ContainOnly /\ tpc # "idle" =>
            /\ NoRepeat(current_path)
            /\ tpc \notin {"raised", "unwinding"}
            /\ cycle_detected <=> EventsOf("cycle") # {}
            /\ (cycle_detected /\ events # << >>)
                   => CycleReachable(all_nodes, events[1].node))
    /\ [][(ContainOnly /\ CycleStopAppended) =>
            /\ events'[Len(events')].node \in Range(current_path)
            /\ current_path' = current_path
            /\ Len(tstack') <= Len(tstack)
            /\ cycle_detected']_vars

\* a call has returned on an acyclic graph in which a node was visited twice
C19_Witness ==
    /\ ContainOnly
    /\ tpc = "returned"
    /\ Acyclic(all_nodes)
    /\ ~cycle_detected
    /\ \E j, k \in EventsOf("visit") : j # k /\ events[j].node = events[k].node

RaiseOnCycle == config.detect_cycles /\ config.raise_on_cycle

\* C20: with raise_on_cycle set, the first cycle stop makes the call raise:
\* it is the last event of the call (no node is visited after it), the error
\* propagates through every activation, and once it has left traverse_tree
\* has_cycle() is true and the current-path stack is empty.
C20_RaiseOnCycleUnwinds ==
    /\ [](RaiseOnCycle /\ EventsOf("cycle") # {} =>
            /\ tpc \in {"unwinding", "raised"}
            /\ events[Len(events)].kind = "cycle"
            /\ Cardinality(EventsOf("cycle")) = 1
            /\ cycle_detected)
    /\ [](RaiseOnCycle /\ tpc = "raised" =>
            /\ cycle_detected
            /\ EventsOf("cycle") # {}
            /\ current_path = << >>
            /\ tstack = << >>)
    /\ [](RaiseOnCycle /\ tpc = "returned" => EventsOf("cycle") = {})
    /\ ((RaiseOnCycle /\ tpc = "unwinding") ~> (tpc = "raised"))

\* the error has left a call that had visited two nodes
C20_Witness ==
    /\ RaiseOnCycle
    /\ tpc = "raised"
    /\ Cardinality(EventsOf("visit")) >= 2

(***************************************************************************)
(* Structural validator                                                    *)
(***************************************************************************)
StructDone == spc = "done"

\* The connections of the validated graph, as <<node id, connection>>.
StructConns ==
    UNION {{<<id, snodes.nodes[id].conns[k]>> : k \in 1..Len(snodes.nodes[id].conns)} :
             id \in NodeIds(snodes)}

\* Every connection value is a plain id, in a mapping of nodes.
PlainGraph == snodes.nshape = "dict" /\ \A c \in StructConns : ~IsObject(c[2])

Dangling == {c \in StructConns : ~IsObject(c[2]) /\ c[2].target \notin NodeIds(snodes)}

\* C15: in a graph whose connection values are ids, every connection whose
\* target is not a key of the graph is reported by validate_tree_structure
\* as a "references non-existent node" issue and makes is_valid false; the
\* children enumeration leaves the target out, the internal traversal
\* visits only nodes of the graph, and the call raises nothing.
C15_DanglingReportedAndExcluded ==
    (StructDone /\ PlainGraph) =>
        /\ ~sresult.raised
        /\ \A c \in Dangling :
             /\ NonExistent(c[1], c[2].target) \in Range(sresult.issues)
             /\ ~sresult.is_valid
        /\ Range(sresult.visits) \subseteq NodeIds(snodes)
        /\ \A id \in NodeIds(snodes) :
             /\ ~ChildrenOf(snodes, id).raised
             /\ Range(ChildrenOf(snodes, id).children) \subseteq NodeIds(snodes)

\* A dangling connection on a visited node that also has a followed child.
C15_Witness ==
    /\ StructDone
    /\ PlainGraph
    /\ ~sresult.raised
    /\ \E c \in Dangling :
         /\ c[1] \in Range(sresult.visits)
         /\ ChildrenOf(snodes, c[1]).children # << >>
         /\ NonExistent(c[1], c[2].target) \in Range(sresult.issues)
    /\ Cardinality(Range(sresult.visits)) >= 2

\* C16: validate_tree_structure never raises; is_valid is true exactly
\* when the issue list is empty, and a graph holding a dangling edge, a
\* self-loop or a nested-object connection value is not valid, in both
\* connection wire shapes.
C16_NeverRaises ==
    StructDone =>
        /\ ~sresult.raised
        /\ sresult.is_valid <=> (sresult.issues = << >>)
        /\ (\E c \in StructConns :
               IsObject(c[2]) \/ c[2].target = c[1] \/ c[2].target \notin NodeIds(snodes))
             => ~sresult.is_valid

(***************************************************************************)
(* Failure isolation in the resolver                                       *)
(***************************************************************************)
\* The handling of one more conflict c by the handler of its type.
Attempt(c) == ResNext /\ conflicts' = Append(conflicts, c)

\* The conflicts the caller's list may hold after the ones handled so far.
MayFollow ==
    {c \in ConflictInputs :
        c.type = conflicts[Len(conflicts)].type \/ c.type \notin HandledTypes}

\* C17: an iteration whose try block raised (the text-generation call
\* failed, the structured reply was unusable, or the handler's own code
\* raised) appends its conflict, and only it, to the unresolved list,
\* records no resolution and leaves the pass running; from there every
\* conflict that may follow in the list, of the same type or of a type not
\* handled yet, is still attempted, and the pass can return its result.
C17_FailureIsolated ==
    /\ [][(conflicts' # conflicts /\ last'.raised) =>
             /\ unresolved' = Append(unresolved, last'.conflict)
             /\ resolutions' = resolutions
             /\ rpc' = "running"]_vars
    /\ [](rpc = "running" /\ conflicts # << >> /\ last.raised =>
             /\ ENABLED ReturnResult
             /\ Len(conflicts) < MaxConflicts =>
                    \A c \in MayFollow : ENABLED Attempt(c))

\* A failed repair followed by the handling of a conflict of the same type
\* and the return of the result.
C17_Witness ==
    /\ rpc = "done"
    /\ Len(conflicts) = 2
    /\ conflicts[1].type = conflicts[2].type
    /\ unresolved # << >> /\ unresolved[1] = conflicts[1]
    /\ resolutions = <<conflicts[2]>>

(***************************************************************************)
(* Coverage of the cycle detector                                          *)
(***************************************************************************)
\* A mapping of nodes whose connections are in one of the two wire shapes.
WireGraph(tree) ==
    /\ tree.nshape = "dict"
    /\ \A u \in NodeIds(tree) : tree.nodes[u].cshape \in {"map", "rec"}

OnCycle(tree, u) == <<u, u>> \in Closure(tree)

\* The nodes joined to u by connections taken in either direction.
Component(tree, u) ==
    LET Sym == Edges(tree) \cup {<<e[2], e[1]>> : e \in Edges(tree)}
        R[k \in 0..Cardinality(NodeIds(tree))] ==
            IF k = 0 THEN {u}
            ELSE R[k - 1] \cup {w \in NodeIds(tree) : \E v \in R[k - 1] : <<v, w>> \in Sym}
    IN  R[Cardinality(NodeIds(tree))]

\* The nodes that lie on a common cycle with u.
CycleClass(tree, u) ==
    {u} \cup {w \in NodeIds(tree) : <<u, w>> \in Closure(tree) /\ <<w, u>> \in Closure(tree)}

\* C21: for every node on a cycle, wherever it lies in the node order and
\* whether or not the first node reaches it, detect_circular_references
\* reports a cycle made of nodes that share a cycle with it (so of nodes of
\* its component); a self-loop n -> n is reported as <<n, n>>.
C21_EveryComponentSearched ==
    (cpc = "done" /\ WireGraph(ctree)) =>
        /\ ~cresult.raised
        /\ \A u \in NodeIds(ctree) :
             /\ OnCycle(ctree, u) =>
                   \E k \in 1..Len(cresult.cycles) :
                       /\ Range(cresult.cycles[k]) \subseteq CycleClass(ctree, u)
                       /\ Range(cresult.cycles[k]) \subseteq Component(ctree, u)
             /\ <<u, u>> \in Edges(ctree) => <<u, u>> \in Range(cresult.cycles)

\* A cyclic island the first node does not reach, next to a self-loop.
C21_Witness ==
    /\ cpc = "done"
    /\ WireGraph(ctree)
    /\ Component(ctree, N1) = {N1}
    /\ <<N1, N1>> \in Range(cresult.cycles)
    /\ <<N2, N3, N2>> \in Range(cresult.cycles)

\* C30: no cycle sequence occurs twice in the list detect_circular_references
\* returns, also when a node holds two connections to the same target.
C30_NoDuplicateCycles ==
    (cpc = "done" /\ WireGraph(ctree)) =>
        \A j, k \in 1..Len(cresult.cycles) :
            j # k => cresult.cycles[j] # cresult.cycles[k]

(***************************************************************************)
(* Cycle reporting and root inference of the structural validator          *)
(***************************************************************************)
\* The circular-reference issues in the result.
CircularIssues == {i \in Range(sresult.issues) : i.issue = "circular"}

UnreferencedByOthers(tree) ==
    {u \in NodeIds(tree) :
        \A v \in NodeIds(tree) \ {u} : u \notin Range(RawTargets(tree, v))}

\* C27: on a mapping of nodes with id-valued connections find_root_nodes
\* returns exactly the nodes that no other node references, and a single
\* node of the graph when there is none; the result is never empty.
C27_RootsAreUnreferenced ==
    (StructDone /\ PlainGraph) =>
        /\ sresult.roots # << >>
        /\ Range(sresult.roots) \subseteq NodeIds(snodes)
        /\ IF UnreferencedByOthers(snodes) # {}
           THEN Range(sresult.roots) = UnreferencedByOthers(snodes)
           ELSE Len(sresult.roots) = 1

(***************************************************************************)
(* Traversal state across calls on one instance                            *)
(***************************************************************************)
\* The ids on which process_node was invoked in the current call.
VisitedInCall == {events[k].node : k \in EventsOf("visit")}

\* C28: whatever an earlier call on the instance left behind, has_cycle()
\* tells whether the current call stopped at a cycle and
\* get_visited_nodes() is the set of ids visited in the current call; a
\* call starts with an empty visited set, an empty current path and
\* has_cycle() false, and when it has returned the current path is empty.
C28_StateLocalToCall ==
    /\ [](visited_nodes = VisitedInCall)
    /\ [](cycle_detected <=> EventsOf("cycle") # {})
    /\ [](tpc = "returned" => current_path = << >>)
    /\ [][prior' # prior =>
            /\ visited_nodes' \subseteq {events'[1].node}
            /\ Len(current_path') <= 1
            /\ Len(events') = 1
            /\ cycle_detected' = FALSE]_vars

\* A returned call without a cycle, made on an instance whose previous call
\* had detected one and had visited a different node.
C28_Witness ==
    /\ tpc = "returned"
    /\ prior.cycle
    /\ ~cycle_detected
    /\ prior.visited # {}
    /\ visited_nodes # {}
    /\ prior.visited \cap visited_nodes = {}

(***************************************************************************)
(* Further properties of the resolver                                      *)
(***************************************************************************)
Handled == rpc \in {"running", "done"} /\ conflicts # << >>

\* The circular-dependency handler has no connection to remove for the
\* conflict: fewer than two nodes, the from-node is not in the graph, or
\* the from-node holds no connection to the to-node.
EdgeNotLocated(conflict, tree) ==
    \/ Len(conflict.nodes) < 2
    \/ LET e == CycleEdgeToCut(conflict.nodes) IN
         \/ e.from \notin Range(tree.order)
         \/ e.to \notin Range(RawTargets(tree, e.from))

\* C22: a circular_dependency conflict whose connection cannot be located
\* ends in unresolved and not in resolutions, and the graph is as it was
\* before the attempt.
C22_UnlocatedEdgeUnresolved ==
    (/\ Handled
     /\ last.conflict.type = "circular_dependency"
     /\ EdgeNotLocated(last.conflict, last.before))
    => /\ last.fate = "unresolved"
       /\ last.conflict = unresolved[Len(unresolved)]
       /\ ResolvedTree = last.before

\* The first half of a redundancy conflict's node list: the kept path.
FirstHalf(redundant_nodes) ==
    {redundant_nodes[k] : k \in 1..(Len(redundant_nodes) \div 2)}

\* C23: after a redundant_paths conflict with more than one node has been
\* handled on a graph in one of the two wire shapes, every node of the
\* first half of its node list is still in the graph, every node that left
\* the graph is of the second half, and each remaining node holds its
\* former connections less those that led to a node that left.
C23_RedundantRepairFrame ==
    (/\ Handled
     /\ last.conflict.type = "redundant_paths"
     /\ Len(last.conflict.nodes) > 1
     /\ \A id \in Range(last.before.order) :
            last.before.nodes[id].cshape \in {"map", "rec"})
    => LET gone == Range(last.before.order) \ Range(resolved_nodes) IN
       /\ (FirstHalf(last.conflict.nodes) \cap Range(last.before.order))
              \subseteq Range(resolved_nodes)
       /\ gone \subseteq NodesToRemove(last.conflict.nodes)
       /\ \A id \in Range(resolved_nodes) :
              node_objs[id].conns =
                  SelectSeq(last.before.nodes[id].conns, LAMBDA c : c.target \notin gone)

\* Node id of tree `after` shows the change that modification mod asks for.
ModReflected(mod, after) ==
    LET node == after.nodes[mod.node_id]
        t == mod.modification_type
    IN  /\ t = "update_condition" => node.cond = mod.new_value
        /\ t = "update_text" => node.text = mod.new_value
        /\ (t = "add_connection" /\ mod.new_value.colon) =>
               \E k \in 1..Len(node.conns) :
                   /\ node.conns[k].label = mod.new_value.head
                   /\ node.conns[k].target = mod.new_value.tail
        /\ t = "remove_connection" =>
               \A k \in 1..Len(node.conns) : node.conns[k].label # mod.old_value

\* The node ids a Resolution names.
NamedBy(resolution) ==
    {resolution.modified_nodes[k].node_id : k \in 1..Len(resolution.modified_nodes)}
        \cup {resolution.new_nodes[k].id : k \in 1..Len(resolution.new_nodes)}
        \cup {resolution.removed_connections[k].head :
                 k \in 1..Len(resolution.removed_connections)}

\* C24: after a contradictory_paths or overlapping_conditions conflict for
\* which the collaborator returned a usable Resolution has been handled on
\* a graph in one of the two wire shapes, every modification shows on its
\* node, every new node is in the graph under its id, no removed
\* "node:condition" connection is left, and the nodes the Resolution does
\* not name are as before.
C24_ResolutionApplied ==
    (/\ Handled
     /\ last.conflict.type \in {"contradictory_paths", "overlapping_conditions"}
     /\ last.reply.ok
     /\ \A id \in Range(last.before.order) :
            last.before.nodes[id].cshape \in {"map", "rec"})
    => LET r == last.reply
           after == ResolvedTree
       IN  /\ \A k \in 1..Len(r.modified_nodes) :
                  r.modified_nodes[k].node_id \in Range(last.before.order) =>
                      /\ r.modified_nodes[k].node_id \in Range(after.order)
                      /\ ModReflected(r.modified_nodes[k], after)
           /\ \A k \in 1..Len(r.new_nodes) :
                  /\ r.new_nodes[k].id \in Range(after.order)
                  /\ after.nodes[r.new_nodes[k].id] = r.new_nodes[k].node
           /\ \A k \in 1..Len(r.removed_connections) :
                  LET id == r.removed_connections[k].head IN
                  id \in Range(after.order) =>
                      \A j \in 1..Len(after.nodes[id].conns) :
                          after.nodes[id].conns[j].label # r.removed_connections[k].tail
           /\ \A id \in Range(last.before.order) \ NamedBy(r) :
                  /\ id \in Range(after.order)
                  /\ after.nodes[id] = last.before.nodes[id]

\* A record made by model_dump() of one of a Resolution's new_nodes (it has
\* no 'condition' key), as opposed to a node of the input graph.
IsDumpedNode(node) == node.cond = Str(NoValue)

\* C25: throughout a pass every id of the input graph that is in the graph
\* denotes the node it denoted at the start, never a record inserted from a
\* Resolution's new_nodes.
C25_IdsStable ==
    rpc \in {"running", "done"} =>
        \A id \in Range(tree0.order) \cap Range(resolved_nodes) :
            ~IsDumpedNode(node_objs[id])

\* The second halves of the redundant_paths conflicts repaired so far.
DeletedHalves ==
    UNION {NodesToRemove(resolutions[k].nodes) :
              k \in {j \in 1..Len(resolutions) : resolutions[j].type = "redundant_paths"}}

\* C29: no node deleted by the repair of a redundant_paths conflict is in
\* the graph again later in the pass: the nodes of the graph are those of
\* the graph before the redundant_paths conflicts less all deleted halves.
C29_DeletionsAccumulate ==
    Handled => Range(resolved_nodes) \cap DeletedHalves = {}
====
